---- MODULE Spec2Model ----
(***************************************************************************)
(* Model of the thsms-socket voting server (src/index.js).                 *)
(*                                                                         *)
(* The server is a single Node.js process.  Every inbound websocket        *)
(* message starts an async handler; a handler runs synchronously up to its *)
(* next `await` and is resumed later.  One action of this model is one     *)
(* such synchronous segment: the arrival of a message up to the first      *)
(* await, or the resumption after an await up to the next one.             *)
(*                                                                         *)
(* Redis commands travel over the single ioredis connection: a command     *)
(* takes effect in the order it was issued and replies come back in that   *)
(* order.  A command is therefore applied to the store in the segment that *)
(* issues it (the key is built from currentRound as read at that moment),  *)
(* its reply is kept in the task, and `pending` is the FIFO of the tasks   *)
(* that wait for a reply; `verifying` holds the identify handlers that     *)
(* wait for jwtVerify, which settle in any order.                          *)
(*                                                                         *)
(* Init is the server once its listening callback has run: the contestant  *)
(* catalog is loaded (it never changes afterwards), no client is connected *)
(* and the store is empty.  Store calls succeed in Spec.                   *)
(***************************************************************************)
EXTENDS Integers, Sequences, FiniteSets, TLC

\* ---------------------------------------------------------------- bounds
MaxEvents == 5       \* external events (connections, closes, messages, expiries) in one behaviour
MaxTasks == 2        \* handlers (and detached broadcasts) in flight together

\* ---------------------------------------------------------------- inputs
None == "none"                         \* null / undefined / absent
ConnSeq == <<"c1", "c2">>              \* websocket connections, in order of arrival
Conns == {ConnSeq[i] : i \in 1..Len(ConnSeq)}
contestants == <<"A", "B">>            \* the ids of the rows loadContestants() stored
\* data of identify, <<uuid, token>>: no uuid, no token, a token jwtVerify rejects
\* ("bad"), a valid token without the admin claim ("user"), a valid admin token.
IdentifyInputs == {<<"X", None>>, <<"Y", None>>, <<None, None>>,
                   <<"X", "bad">>, <<"X", "user">>, <<"X", "admin">>, <<"Y", "admin">>}
\* data.contestantId of vote; "#7" is the JSON number 7, which is no contestant.
CidInputs == {"A", "B", "#7"}
AdminEvents == {"next_round", "reset_votes"}
HandledEvents == {"vote", "get_vote_counts", "get_my_vote", "next_round", "reset_votes"}
Events == HandledEvents \cup {"identify", "ping"}   \* "ping": an event no handler is registered for

VARIABLES
    currentRound,  \* let currentRound = 0
    users,         \* const users = new Map()       (connection -> uuid)
    isAdmin,       \* ws.isAdmin of every connection
    ready,         \* ws.readyState: "new" (not yet accepted), "open", "closed"
    votes,         \* redis keys votes:round:R:user:U        (<<R, U>> -> id)
    counts,        \* redis keys votes:round:R:contestant:C  (<<R, C>> -> integer)
    verifying,     \* the identify handlers that wait for jwtVerify
    pending,       \* FIFO of the activations that wait for a redis reply
    sent,          \* the messages the last step put on the wire
    last,          \* history: the step taken last
    nev,           \* history: number of external events so far
    wasReset       \* history: a reset_votes handler has started

vars == <<currentRound, users, isAdmin, ready, votes, counts,
          verifying, pending, sent, last, nev, wasReset>>

\* ------------------------------------------------------------ JS helpers
EmptyMap == [x \in {} |-> None]
MapGet(m, k) == IF k \in DOMAIN m THEN m[k] ELSE None
MapSet(m, k, v) == [x \in DOMAIN m \cup {k} |-> IF x = k THEN v ELSE m[x]]
MapDel(m, k) == [x \in DOMAIN m \ {k} |-> m[x]]

\* String(value) as ioredis writes an argument: the number 7 becomes "7".
RedisStr(cid) == IF cid = "#7" THEN "7" ELSE cid
IsJsString(cid) == cid # "#7"

\* Mutant of SameVote: the comparison never succeeds.
SameVoteNever(prev, cid) == FALSE
\* prevContestantId === contestantId: a redis reply is a string or null.
SameVote(prev, cid) == IsJsString(cid) /\ prev # None /\ prev = cid

\* if (prevContestantId)
Truthy(prev) == prev # None

\* redis GET of a counter: <<>> is the null reply, <<n>> the decimal string of n.
CountGet(m, k) == IF k \in DOMAIN m THEN <<m[k]>> ELSE <<>>
\* parseInt(count || '0', 10)
ParseCount(reply) == IF Len(reply) = 0 THEN 0 ELSE reply[1]
RedisIncr(m, k) == MapSet(m, k, (IF k \in DOMAIN m THEN m[k] ELSE 0) + 1)
RedisDecr(m, k) == MapSet(m, k, (IF k \in DOMAIN m THEN m[k] ELSE 0) - 1)
RedisDel(m, k) == MapDel(m, k)

\* jwtVerify(token, secret): throws on "bad"; payload.admin only for "admin".
JwtThrows(token) == token = "bad"
JwtAdmin(token) == token = "admin"

\* --------------------------------------------------------------- messages
Msg(to, event) ==
    [to |-> to, event |-> event, uuid |-> None, contestantId |-> None,
     currentRound |-> -1, isAdmin |-> FALSE, contestants |-> <<>>,
     voteCounts |-> <<>>, message |-> None]

\* ws.send on a socket that is not OPEN puts nothing on the wire.
Deliver(msgs) == {m \in msgs : ready[m.to] = "open"}

\* broadcast(wss, event, data): every client of wss whose readyState is OPEN.
Clients == {c \in Conns : ready[c] = "open"}
Broadcast(m) == {[m EXCEPT !.to = c] : c \in Clients}

\* broadcast(wss, 'vote_update', ...) of the detached loop, or send(ws, ...) of the query.
VoteUpdate(dest, vc) ==
    IF dest = "all" THEN Broadcast([Msg(None, "vote_update") EXCEPT !.voteCounts = vc])
    ELSE Deliver({[Msg(dest, "vote_update") EXCEPT !.voteCounts = vc]})

\* ------------------------------------------------------------------ tasks
Idle == [pc |-> "idle", ws |-> None, uuid |-> None, cid |-> None, token |-> None,
         vround |-> 0, prev |-> None, rr |-> 0, idx |-> 0, count |-> <<>>,
         acc |-> <<>>, dest |-> None]

\* The positions of a request handler; "bc_get" is the detached broadcast loop.
HandlerPcs == {"id_verify", "v_get", "v_decr", "v_set", "v_incr", "gc_get",
               "mv_get", "rs_del"}
InFlight == Len(verifying) + Len(pending)
HasFree == InFlight < MaxTasks
Quiescent == verifying = <<>> /\ \A i \in 1..Len(pending) : pending[i].pc \notin HandlerPcs
RemoveAt(q, i) == SubSeq(q, 1, i - 1) \o SubSeq(q, i + 1, Len(q))
Step(op, c, event, arg, from) ==
    [op |-> op, conn |-> c, event |-> event, arg |-> arg, from |-> from]

Init ==
    /\ currentRound = 0
    /\ users = EmptyMap
    /\ isAdmin = [c \in Conns |-> FALSE]
    /\ ready = [c \in Conns |-> "new"]
    /\ votes = EmptyMap
    /\ counts = EmptyMap
    /\ verifying = <<>>
    /\ pending = <<>>
    /\ sent = {}
    /\ last = Step("init", None, None, None, None)
    /\ nev = 0
    /\ wasReset = FALSE

\* ------------------------------------------------------- external events
\* One more external event fits the behaviour.
Event ==
    /\ nev < MaxEvents
    /\ nev' = nev + 1

\* wss.on('connection'): the socket joins wss.clients, ws.isAdmin = false.
\* Connections are accepted in the order of ConnSeq (they are interchangeable).
Connect(c) ==
    /\ Event
    /\ ready[c] = "new"
    /\ \E i \in 1..Len(ConnSeq) : ConnSeq[i] = c /\ \A j \in 1..(i - 1) : ready[ConnSeq[j]] # "new"
    /\ ready' = [ready EXCEPT ![c] = "open"]
    /\ isAdmin' = [isAdmin EXCEPT ![c] = FALSE]
    /\ sent' = {}
    /\ last' = Step("connect", c, None, None, None)
    /\ UNCHANGED <<currentRound, users, votes, counts, verifying, pending, wasReset>>

\* ws.on('close'): users.delete(ws); the socket leaves wss.clients.
Close(c) ==
    /\ Event
    /\ ready[c] = "open"
    /\ ready' = [ready EXCEPT ![c] = "closed"]
    /\ users' = MapDel(users, c)
    /\ sent' = {}
    /\ last' = Step("close", c, None, None, None)
    /\ UNCHANGED <<currentRound, isAdmin, votes, counts, verifying, pending, wasReset>>

\* A vote record written with 'EX', 3600 is dropped by the store after an hour.
Expire(k) ==
    /\ Event
    /\ k \in DOMAIN votes
    /\ votes' = MapDel(votes, k)
    /\ sent' = {}
    /\ last' = Step("expire", None, None, None, None)
    /\ UNCHANGED <<currentRound, users, isAdmin, ready, counts, verifying, pending, wasReset>>

\* ------------------------------------------------------------ the router
\* if (!users.has(ws)) return;
IsIdentified(c) == c \in DOMAIN users
\* Mutant of IsUnauthorized: reset_votes is left out of the admin check.
IsUnauthorizedNextRoundOnly(c, event) == event = "next_round" /\ ~isAdmin[c]
\* (event === "next_round" || event === "reset_votes") && !ws.isAdmin
IsUnauthorized(c, event) == event \in AdminEvents /\ ~isAdmin[c]

\* Mutant of Route: the admin check runs before the users.has check.
RouteAuthFirst(c, event) ==
    IF event = "identify" THEN "identify"
    ELSE IF IsUnauthorized(c, event) THEN "unauthorized"
    ELSE IF ~IsIdentified(c) THEN "discard"
    ELSE IF event \in HandledEvents THEN "dispatch"
    ELSE "ignore"
\* The branch ws.on('message') takes for a parsed message.
Route(c, event) ==
    IF event = "identify" THEN "identify"
    ELSE IF ~IsIdentified(c) THEN "discard"
    ELSE IF IsUnauthorized(c, event) THEN "unauthorized"
    ELSE IF event \in HandledEvents THEN "dispatch"
    ELSE "ignore"

\* A message event of connection c is delivered to ws.on('message').
Arrives(c, event, arg, route) ==
    /\ Event
    /\ ready[c] = "open"
    /\ Route(c, event) = route
    /\ last' = Step("recv", c, event, arg, None)

Welcome(c, uuid, admin) ==
    [Msg(c, "welcome") EXCEPT !.uuid = uuid, !.contestants = contestants,
                              !.currentRound = currentRound, !.isAdmin = admin]

\* broadcastVoteCounts() / the loop of get_vote_counts, up to its first await:
\* the counter of the first contestant is read in `round`, the current round.
StartCounts(base, pc, dest, round) ==
    [base EXCEPT !.pc = pc, !.dest = dest, !.idx = 1, !.acc = <<>>,
                 !.count = CountGet(counts, <<round, contestants[1]>>)]

\* event === "identify": users.set, then jwtVerify when a token was given.
RecvIdentify(c, uuid, token) ==
    /\ Arrives(c, "identify", token, "identify")
    /\ users' = MapSet(users, c, uuid)
    /\ IF token # None
       THEN /\ HasFree
            /\ verifying' = Append(verifying,
                   [Idle EXCEPT !.pc = "id_verify", !.ws = c, !.uuid = uuid, !.token = token])
            /\ sent' = {}
       ELSE /\ verifying' = verifying
            /\ sent' = Deliver({Welcome(c, uuid, isAdmin[c])})
    /\ UNCHANGED <<currentRound, isAdmin, ready, votes, counts, pending, wasReset>>

\* ws.isAdmin once jwtVerify has settled: the catch swallows a rejection.
RoleAfterVerify(c, token) ==
    IF ~JwtThrows(token) /\ JwtAdmin(token) THEN TRUE ELSE isAdmin[c]

\* jwtVerify of the i-th waiting identify settles; then the welcome is sent.
VerifyDone(i) ==
    /\ i \in 1..Len(verifying)
    /\ LET t == verifying[i]
           admin == RoleAfterVerify(t.ws, t.token)
       IN /\ isAdmin' = [isAdmin EXCEPT ![t.ws] = admin]
          /\ sent' = Deliver({Welcome(t.ws, t.uuid, admin)})
          /\ last' = Step("resume", None, None, None, "id_verify")
    /\ verifying' = RemoveAt(verifying, i)
    /\ UNCHANGED <<currentRound, users, ready, votes, counts, pending, nev, wasReset>>

\* Any other event of a connection that is not in `users` is dropped.
RecvDiscard(c, event) ==
    /\ Arrives(c, event, None, "discard")
    /\ sent' = {}
    /\ UNCHANGED <<currentRound, users, isAdmin, ready, votes, counts, verifying, pending, wasReset>>

\* next_round / reset_votes of a connection whose ws.isAdmin is false.
RecvUnauthorized(c, event) ==
    /\ Arrives(c, event, None, "unauthorized")
    /\ sent' = Deliver({[Msg(c, "error") EXCEPT !.message = "Unauthorized"]})
    /\ UNCHANGED <<currentRound, users, isAdmin, ready, votes, counts, verifying, pending, wasReset>>

\* An event with no entry in eventHandlers.
RecvOther(c, event) ==
    /\ Arrives(c, event, None, "ignore")
    /\ sent' = {}
    /\ UNCHANGED <<currentRound, users, isAdmin, ready, votes, counts, verifying, pending, wasReset>>

\* ----------------------------------------------------------------- vote
\* handleVote up to `await redis.get(voteKey)`.
RecvVote(c, cid) ==
    /\ Arrives(c, "vote", cid, "dispatch")
    /\ LET uuid == MapGet(users, c)
       IN IF uuid = None
          THEN pending' = pending
          ELSE /\ HasFree
               /\ pending' = Append(pending,
                      [Idle EXCEPT !.pc = "v_get", !.ws = c, !.uuid = uuid, !.cid = cid,
                                   !.vround = currentRound,
                                   !.prev = MapGet(votes, <<currentRound, uuid>>)])
    /\ sent' = {}
    /\ UNCHANGED <<currentRound, users, isAdmin, ready, votes, counts, verifying, wasReset>>

VoteSuccess(t) == Deliver({[Msg(t.ws, "vote_success") EXCEPT !.contestantId = t.cid]})

\* The activation whose redis reply arrives next is at position pc.
Resumes(pc) ==
    /\ pending # <<>>
    /\ Head(pending).pc = pc
    /\ last' = Step("resume", None, None, None, pc)

\* The activation goes on to its next await / has returned.
Continue(t) == pending' = Append(Tail(pending), t)
Return == pending' = Tail(pending)

\* voteKey is built once, before the first await; the two counter keys are
\* built after it, from currentRound as it is then.
VoteKey(t) == <<t.vround, t.uuid>>
\* Mutant of DecrKey: the counter of the new contestant is decremented.
DecrKeyOfNew(t) == <<currentRound, RedisStr(t.cid)>>
DecrKey(t) == <<currentRound, t.prev>>
IncrKey(t) == <<currentRound, RedisStr(t.cid)>>

\* After the get: same contestant -> vote_success and return; a previous vote
\* for someone else -> decr; otherwise straight to the set.
VoteAfterGet ==
    /\ Resumes("v_get")
    /\ LET t == Head(pending)
       IN IF SameVote(t.prev, t.cid)
          THEN /\ sent' = VoteSuccess(t)
               /\ Return
               /\ UNCHANGED <<votes, counts>>
          ELSE /\ sent' = {}
               /\ IF Truthy(t.prev)
                  THEN /\ counts' = RedisDecr(counts, DecrKey(t))
                       /\ votes' = votes
                       /\ Continue([t EXCEPT !.pc = "v_decr"])
                  ELSE /\ votes' = MapSet(votes, VoteKey(t), RedisStr(t.cid))
                       /\ counts' = counts
                       /\ Continue([t EXCEPT !.pc = "v_set"])
    /\ UNCHANGED <<currentRound, users, isAdmin, ready, verifying, nev, wasReset>>

\* After the decr: redis.set(voteKey, contestantId, 'EX', 3600).
VoteAfterDecr ==
    /\ Resumes("v_decr")
    /\ LET t == Head(pending)
       IN /\ votes' = MapSet(votes, VoteKey(t), RedisStr(t.cid))
          /\ Continue([t EXCEPT !.pc = "v_set"])
    /\ sent' = {}
    /\ UNCHANGED <<currentRound, users, isAdmin, ready, counts, verifying, nev, wasReset>>

\* After the set: redis.incr of the new contestant's counter.
VoteAfterSet ==
    /\ Resumes("v_set")
    /\ LET t == Head(pending)
       IN /\ counts' = RedisIncr(counts, IncrKey(t))
          /\ Continue([t EXCEPT !.pc = "v_incr"])
    /\ sent' = {}
    /\ UNCHANGED <<currentRound, users, isAdmin, ready, votes, verifying, nev, wasReset>>

\* After the incr: vote_success, then broadcastVoteCounts() is started, not awaited.
VoteAfterIncr ==
    /\ Resumes("v_incr")
    /\ sent' = VoteSuccess(Head(pending))
    /\ Continue(StartCounts(Head(pending), "bc_get", "all", currentRound))
    /\ UNCHANGED <<currentRound, users, isAdmin, ready, votes, counts, verifying, nev, wasReset>>

\* --------------------------------------------------------------- queries
\* One reply of the counting loop: store it, then read the next contestant's
\* counter of the round that is current now, or send the mapping.
CountsAfterGet(pc) ==
    /\ pc \in {"bc_get", "gc_get"}
    /\ Resumes(pc)
    /\ LET t == Head(pending)
           acc == Append(t.acc, ParseCount(t.count))
           i == t.idx
       IN IF i < Len(contestants)
          THEN /\ Continue([t EXCEPT !.acc = acc, !.idx = i + 1,
                               !.count = CountGet(counts, <<currentRound, contestants[i + 1]>>)])
               /\ sent' = {}
          ELSE /\ Return
               /\ sent' = VoteUpdate(t.dest, acc)
    /\ UNCHANGED <<currentRound, users, isAdmin, ready, votes, counts, verifying, nev, wasReset>>

RecvGetVoteCounts(c) ==
    /\ Arrives(c, "get_vote_counts", None, "dispatch")
    /\ HasFree
    /\ pending' = Append(pending,
           StartCounts([Idle EXCEPT !.ws = c, !.uuid = MapGet(users, c)], "gc_get", c, currentRound))
    /\ sent' = {}
    /\ UNCHANGED <<currentRound, users, isAdmin, ready, votes, counts, verifying, wasReset>>

RecvGetMyVote(c) ==
    /\ Arrives(c, "get_my_vote", None, "dispatch")
    /\ HasFree
    /\ pending' = Append(pending,
           [Idle EXCEPT !.pc = "mv_get", !.ws = c, !.uuid = MapGet(users, c),
                        !.vround = currentRound,
                        !.prev = MapGet(votes, <<currentRound, MapGet(users, c)>>)])
    /\ sent' = {}
    /\ UNCHANGED <<currentRound, users, isAdmin, ready, votes, counts, verifying, wasReset>>

MyVoteAfterGet ==
    /\ Resumes("mv_get")
    /\ sent' = Deliver({[Msg(Head(pending).ws, "my_vote") EXCEPT !.contestantId = Head(pending).prev]})
    /\ Return
    /\ UNCHANGED <<currentRound, users, isAdmin, ready, votes, counts, verifying, nev, wasReset>>

\* ----------------------------------------------------------- admin events
\* Mutant of RecvNextRound: the counters of the round that ends are deleted.
RecvNextRoundClearing(c) ==
    /\ Arrives(c, "next_round", None, "dispatch")
    /\ HasFree
    /\ currentRound' = currentRound + 1
    /\ counts' = [k \in {x \in DOMAIN counts : x[1] # currentRound} |-> counts[k]]
    /\ sent' = Broadcast([Msg(None, "round_update") EXCEPT !.currentRound = currentRound + 1])
    /\ pending' = Append(pending,
           StartCounts([Idle EXCEPT !.ws = c, !.uuid = MapGet(users, c)], "bc_get", "all",
                       currentRound + 1))
    /\ UNCHANGED <<users, isAdmin, ready, votes, verifying, wasReset>>
\* next_round has no await: increment, round_update, start the tally broadcast.
RecvNextRound(c) ==
    /\ Arrives(c, "next_round", None, "dispatch")
    /\ HasFree
    /\ currentRound' = currentRound + 1
    /\ sent' = Broadcast([Msg(None, "round_update") EXCEPT !.currentRound = currentRound + 1])
    /\ pending' = Append(pending,
           StartCounts([Idle EXCEPT !.ws = c, !.uuid = MapGet(users, c)], "bc_get", "all",
                       currentRound + 1))
    /\ UNCHANGED <<users, isAdmin, ready, votes, counts, verifying, wasReset>>

\* Mutant of RecvResetVotes: the vote records are deleted with the counters.
RecvResetVotesAndRecords(c) ==
    /\ Arrives(c, "reset_votes", None, "dispatch")
    /\ HasFree
    /\ wasReset' = TRUE
    /\ counts' = RedisDel(counts, <<0, contestants[1]>>)
    /\ votes' = EmptyMap
    /\ pending' = Append(pending,
           [Idle EXCEPT !.pc = "rs_del", !.ws = c, !.uuid = MapGet(users, c), !.rr = 0, !.idx = 1])
    /\ sent' = {}
    /\ UNCHANGED <<currentRound, users, isAdmin, ready, verifying>>
\* reset_votes up to its first `await redis.del`.
RecvResetVotes(c) ==
    /\ Arrives(c, "reset_votes", None, "dispatch")
    /\ HasFree
    /\ wasReset' = TRUE
    /\ counts' = RedisDel(counts, <<0, contestants[1]>>)
    /\ pending' = Append(pending,
           [Idle EXCEPT !.pc = "rs_del", !.ws = c, !.uuid = MapGet(users, c), !.rr = 0, !.idx = 1])
    /\ sent' = {}
    /\ UNCHANGED <<currentRound, users, isAdmin, ready, votes, verifying>>

\* One del replied: the next contestant, else the next round up to the round
\* that is current now, else the tally broadcast.
ResetAfterDel ==
    /\ Resumes("rs_del")
    /\ sent' = {}
    /\ LET t == Head(pending)
           i == t.idx
           r == t.rr
       IN IF i < Len(contestants)
          THEN /\ counts' = RedisDel(counts, <<r, contestants[i + 1]>>)
               /\ Continue([t EXCEPT !.idx = i + 1])
          ELSE IF r + 1 <= currentRound
          THEN /\ counts' = RedisDel(counts, <<r + 1, contestants[1]>>)
               /\ Continue([t EXCEPT !.rr = r + 1, !.idx = 1])
          ELSE /\ counts' = counts
               /\ Continue(StartCounts([t EXCEPT !.rr = r + 1], "bc_get", "all", currentRound))
    /\ UNCHANGED <<currentRound, users, isAdmin, ready, votes, verifying, nev, wasReset>>

\* ------------------------------------------------------------------ system
\* A message of some connection arrives.
Receive ==
    \/ \E c \in Conns, d \in IdentifyInputs : RecvIdentify(c, d[1], d[2])
    \/ \E c \in Conns, e \in Events : RecvDiscard(c, e)
    \/ \E c \in Conns, e \in Events : RecvUnauthorized(c, e)
    \/ \E c \in Conns, e \in Events : RecvOther(c, e)
    \/ \E c \in Conns, cid \in CidInputs : RecvVote(c, cid)
    \/ \E c \in Conns : RecvGetVoteCounts(c)
    \/ \E c \in Conns : RecvGetMyVote(c)
    \/ \E c \in Conns : RecvNextRound(c)
    \/ \E c \in Conns : RecvResetVotes(c)

\* An awaited promise settles and its activation runs on.
Resume ==
    \/ \E i \in 1..MaxTasks : VerifyDone(i)
    \/ VoteAfterGet
    \/ VoteAfterDecr
    \/ VoteAfterSet
    \/ VoteAfterIncr
    \/ \E pc \in {"bc_get", "gc_get"} : CountsAfterGet(pc)
    \/ MyVoteAfterGet
    \/ ResetAfterDel

Next ==
    \/ \E c \in Conns : Connect(c)
    \/ \E c \in Conns : Close(c)
    \/ \E k \in DOMAIN votes : Expire(k)
    \/ Receive
    \/ Resume

Spec == Init /\ [][Next]_vars

\* The executions in which a request handler has returned before the next
\* request arrives, and no vote record expires.
NextSeq ==
    \/ \E c \in Conns : Connect(c)
    \/ \E c \in Conns : Close(c)
    \/ Quiescent /\ Receive
    \/ Resume

SpecSeq == Init /\ [][NextSeq]_vars

\* ----------------------------------------------------------- store failure
\* The store call the oldest waiting activation awaits is rejected (the reply
\* is an error, or the connection to the store broke before the reply came; a
\* write may have been applied).  No handler has a try/catch around its store
\* calls: the async function throws at the await, the message listener's
\* promise (or the detached broadcastVoteCounts promise) rejects and nobody
\* handles the rejection.  Nothing is sent.
StoreFails ==
    /\ Event
    /\ pending # <<>>
    /\ pending' = Tail(pending)
    /\ sent' = {}
    /\ last' = Step("fail", Head(pending).ws, None, None, Head(pending).pc)
    /\ UNCHANGED <<currentRound, users, isAdmin, ready, votes, counts, verifying, wasReset>>

\* The same rejection under a runtime whose default for an unhandled rejection
\* is to end the process (Node.js 15 and later): every socket is gone and no
\* activation runs on.
StoreFailsCrash ==
    /\ Event
    /\ pending # <<>>
    /\ pending' = <<>>
    /\ verifying' = <<>>
    /\ users' = EmptyMap
    /\ ready' = [c \in Conns |-> "closed"]
    /\ sent' = {}
    /\ last' = Step("crash", Head(pending).ws, None, None, Head(pending).pc)
    /\ UNCHANGED <<currentRound, isAdmin, votes, counts, wasReset>>

\* The server with a store whose calls can fail.
NextFail ==
    \/ Next
    \/ StoreFails
    \/ StoreFailsCrash

SpecFail == Init /\ [][NextFail]_vars

\* ------------------------------------------------- votes and tally queries
\* The server after connection c1 has identified as voter X and X's vote for
\* the first contestant has been handled to the end (three events of Spec).
InitSnap ==
    /\ currentRound = 0
    /\ users = MapSet(EmptyMap, ConnSeq[1], "X")
    /\ isAdmin = [c \in Conns |-> FALSE]
    /\ ready = [c \in Conns |-> IF c = ConnSeq[1] THEN "open" ELSE "new"]
    /\ votes = MapSet(EmptyMap, <<0, "X">>, contestants[1])
    /\ counts = MapSet(EmptyMap, <<0, contestants[1]>>, 1)
    /\ verifying = <<>>
    /\ pending = <<>>
    /\ sent = {}
    /\ last = Step("init", None, None, None, None)
    /\ nev = 0
    /\ wasReset = FALSE

\* From there on: identified voters vote for contestants of the catalog and
\* query the tally; no record expires and no admin event is handled, so round
\* 0 stays current and X's record stays live.
NextSnap ==
    \/ \E c \in Conns : Connect(c)
    \/ \E c \in Conns : Close(c)
    \/ \E c \in Conns, d \in IdentifyInputs : RecvIdentify(c, d[1], d[2])
    \/ \E i \in 1..MaxTasks : VerifyDone(i)
    \/ \E c \in Conns, i \in 1..Len(contestants) : RecvVote(c, contestants[i])
    \/ \E c \in Conns : RecvGetVoteCounts(c)
    \/ VoteAfterGet
    \/ VoteAfterDecr
    \/ VoteAfterSet
    \/ VoteAfterIncr
    \/ \E pc \in {"bc_get", "gc_get"} : CountsAfterGet(pc)

SpecSnap == InitSnap /\ [][NextSnap]_vars

\* =================================================================== claims
CatalogIds == {contestants[i] : i \in 1..Len(contestants)}
StoreIds == {RedisStr(cid) : cid \in CidInputs}
\* The value a counter reads as: an absent key counts as 0.
CountIn(m, r, c) == IF <<r, c>> \in DOMAIN m THEN m[<<r, c>>] ELSE 0
\* The number of live vote records of round r that name contestant c.
LedgerCount(r, c) == Cardinality({k \in DOMAIN votes : k[1] = r /\ votes[k] = c})
ErrorTo(c, text) == [Msg(c, "error") EXCEPT !.message = text]
VoteSuccessTo(c, cid) == [Msg(c, "vote_success") EXCEPT !.contestantId = cid]
\* The step just taken resumed an activation from position pc.
Resumed(pc) == last'.op = "resume" /\ last'.from = pc
\* The step just taken is the arrival of `event` on some connection.
Received(events) == last'.op = "recv" /\ last'.event \in events

\* C1: whenever no handler is in flight, the counter of every (round,
\* contestant) equals the number of live vote records of that round naming
\* that contestant.  The code breaks it: an expired record or a reset_votes
\* leaves counters and records apart.
C1_TallyMatchesLedger ==
    Quiescent =>
        \A r \in 0..currentRound, c \in CatalogIds : CountIn(counts, r, c) = LedgerCount(r, c)

\* C2: no counter is ever negative.  The code breaks it: a vote switch after
\* reset_votes decrements a deleted counter to -1.
C2_CountersNonNegative == \A k \in DOMAIN counts : counts[k] >= 0

\* C3: two votes of the same voter in the same round never overlap between the
\* read of the prior vote and the issue of the last write (the incr).  The
\* code breaks it: nothing serializes the handlers.
VoteCritical == {"v_get", "v_decr", "v_set"}
C3_SameVoterVotesSerialized ==
    \A i, j \in 1..Len(pending) :
        (/\ i # j
         /\ pending[i].pc \in VoteCritical
         /\ pending[j].pc \in VoteCritical
         /\ pending[i].vround = pending[j].vround)
        => pending[i].uuid # pending[j].uuid

\* C4: a vote for contestant c by a voter whose record in the current round
\* already names c reads that record, changes no record and no counter, sends
\* vote_success{c} to the voter's connection (when it is still open) and ends.
C4_RevoteIdempotent ==
    [][/\ \A c \in Conns :
            (/\ Received({"vote"})
             /\ last'.conn = c
             /\ c \in DOMAIN users
             /\ last'.arg \in CatalogIds
             /\ MapGet(votes, <<currentRound, users[c]>>) = last'.arg)
            => /\ UNCHANGED <<votes, counts>>
               /\ Len(pending') = Len(pending) + 1
               /\ pending'[Len(pending')].prev = last'.arg
               /\ pending'[Len(pending')].cid = last'.arg
       /\ (/\ Resumed("v_get")
           /\ Head(pending).cid \in CatalogIds
           /\ Head(pending).prev = Head(pending).cid)
          => /\ UNCHANGED <<votes, counts>>
             /\ pending' = Tail(pending)
             /\ sent' = IF ready[Head(pending).ws] = "open"
                        THEN {VoteSuccessTo(Head(pending).ws, Head(pending).cid)}
                        ELSE {}
      ]_vars

\* A re-vote has just been answered without touching the store.
C4_Witness ==
    /\ last.op = "resume"
    /\ last.from = "v_get"
    /\ \E m \in sent : m.event = "vote_success" /\ m.contestantId \in CatalogIds
    /\ \E k \in DOMAIN votes : votes[k] \in CatalogIds

\* C5: a vote that switches a voter from A to B in round r lowers the counter
\* of (r, A) by exactly 1, raises the counter of (r, B) by exactly 1 and
\* changes no other counter.  The code breaks it when next_round is handled
\* while the vote is in flight: the counters of the new round are changed.
C5_SwitchMovesOneVote ==
    [][LET t == Head(pending)
           switch == pending # <<>> /\ t.prev # None /\ t.prev # RedisStr(t.cid)
       IN /\ (Resumed("v_get") /\ switch) =>
                \A k \in DOMAIN counts \cup DOMAIN counts' :
                    CountIn(counts', k[1], k[2]) =
                        CountIn(counts, k[1], k[2]) - (IF k = <<t.vround, t.prev>> THEN 1 ELSE 0)
          /\ (Resumed("v_set") /\ switch) =>
                \A k \in DOMAIN counts \cup DOMAIN counts' \cup {<<t.vround, RedisStr(t.cid)>>} :
                    CountIn(counts', k[1], k[2]) =
                        CountIn(counts, k[1], k[2]) + (IF k = <<t.vround, RedisStr(t.cid)>> THEN 1 ELSE 0)
          /\ (Resumed("v_decr") \/ Resumed("v_incr")) => counts' = counts
      ]_vars

\* C6: when handlers run one after the other and no record expires, then until
\* the first reset_votes the counter of every id in the current round equals
\* the number of voters whose record of that round names it, and when a
\* reset_votes handler has deleted its last key every contestant's counter of
\* every round up to the current one reads 0.
ResetDone ==
    /\ last.op = "resume"
    /\ last.from = "rs_del"
    /\ pending[Len(pending)].pc = "bc_get"
C6_SequentialTally ==
    /\ (Quiescent /\ ~wasReset) =>
            \A c \in StoreIds : CountIn(counts, currentRound, c) = LedgerCount(currentRound, c)
    /\ ResetDone =>
            \A r \in 0..currentRound, c \in CatalogIds : CountIn(counts, r, c) = 0

\* A reset_votes has just deleted its last key while a vote record of the
\* current round is live: the counter that record had raised reads 0 again.
C6_Witness ==
    /\ ResetDone
    /\ \E k \in DOMAIN votes : k[1] = currentRound /\ votes[k] \in CatalogIds

\* C7: a vote whose contestantId is no contestant of the catalog writes no
\* record, touches no counter and is not answered with vote_success.  The code
\* breaks it: handleVote never looks at the catalog.
C7_InvalidContestantRejected ==
    /\ \A k \in DOMAIN votes : votes[k] \in CatalogIds
    /\ \A k \in DOMAIN counts : k[2] \in CatalogIds
    /\ \A m \in sent : m.event = "vote_success" => m.contestantId \in CatalogIds

\* C8: next_round / reset_votes from an identified connection that is not
\* admin is answered with error "Unauthorized" and changes neither the round
\* nor a counter; the round changes only in a next_round of an admin
\* connection and counters are deleted only by a reset_votes handler of an
\* admin connection.
C8_AdminOnly ==
    [][/\ \A c \in Conns :
            (/\ Received(AdminEvents)
             /\ last'.conn = c
             /\ c \in DOMAIN users
             /\ ~isAdmin[c])
            => /\ sent' = {ErrorTo(c, "Unauthorized")}
               /\ UNCHANGED <<currentRound, counts, votes, pending, verifying>>
       /\ currentRound' # currentRound =>
            /\ Received({"next_round"})
            /\ isAdmin[last'.conn]
            /\ currentRound' = currentRound + 1
       /\ (\E k \in DOMAIN counts : k \notin DOMAIN counts') =>
            \/ Received({"reset_votes"}) /\ isAdmin[last'.conn]
            \/ Resumed("rs_del") /\ isAdmin[Head(pending).ws]
      ]_vars

\* A non-admin connection has just been refused an admin event.
C8_Witness ==
    /\ last.op = "recv"
    /\ last.event \in AdminEvents
    /\ last.conn \in DOMAIN users
    /\ ~isAdmin[last.conn]
    /\ sent = {ErrorTo(last.conn, "Unauthorized")}

\* C9: when an identify completes, the connection is admin exactly if that
\* identify carried a token the verifier accepted with admin = true, and no
\* error is sent.  The code breaks it: ws.isAdmin is never set back to false,
\* so an identify without a valid admin token keeps an earlier admin role.
C9_RoleResolvedAtIdentify ==
    [][/\ (Received({"identify"}) /\ last'.arg = None) =>
            /\ ~isAdmin'[last'.conn]
            /\ \A m \in sent' : m.event # "error"
       /\ Resumed("id_verify") =>
            \E i \in 1..Len(verifying) :
                /\ verifying' = RemoveAt(verifying, i)
                /\ isAdmin'[verifying[i].ws] = (verifying[i].token = "admin")
                /\ \A m \in sent' : m.event # "error"
      ]_vars

\* C10: a message other than identify from a connection that is not in the
\* session registry gets no reply and changes nothing.
C10_UnidentifiedDiscarded ==
    [][\A c \in Conns :
            (/\ Received(Events \ {"identify"})
             /\ last'.conn = c
             /\ c \notin DOMAIN users)
            => /\ sent' = {}
               /\ UNCHANGED <<currentRound, users, isAdmin, votes, counts, pending, verifying>>
      ]_vars

\* An open connection that is not in the registry has just sent a vote, and
\* nothing was sent back.
C10_Witness ==
    /\ last.op = "recv"
    /\ last.event = "vote"
    /\ last.conn \notin DOMAIN users
    /\ ready[last.conn] = "open"
    /\ sent = {}

\* C11: when a reset_votes handler has deleted its last key, the counter of
\* every (round, contestant) with round in 0..current round reads 0, whatever
\* else is in flight.  The code breaks it: a vote that runs alongside the
\* reset increments a counter the reset has already deleted.
C11_ResetZeroesUnderConcurrency ==
    ResetDone => \A r \in 0..currentRound, c \in CatalogIds : CountIn(counts, r, c) = 0

\* C12: the round starts at 0; a next_round of an admin connection raises it
\* by exactly 1 and changes no vote record and no counter; no other step
\* changes the round.
C12_NextRoundStep ==
    /\ currentRound = 0
    /\ [][/\ \A c \in Conns :
               (/\ Received({"next_round"})
                /\ last'.conn = c
                /\ c \in DOMAIN users
                /\ isAdmin[c])
               => /\ currentRound' = currentRound + 1
                  /\ UNCHANGED <<votes, counts>>
          /\ currentRound' # currentRound =>
               /\ Received({"next_round"})
               /\ last'.conn \in DOMAIN users
               /\ isAdmin[last'.conn]
         ]_vars

\* An admin has just moved on to round 1 while round 0 holds a vote record
\* and a counter that reads 1.
C12_Witness ==
    /\ last.op = "recv"
    /\ last.event = "next_round"
    /\ currentRound = 1
    /\ \E k \in DOMAIN votes : k[1] = 0
    /\ \E k \in DOMAIN counts : k[1] = 0 /\ counts[k] = 1

\* C13: when a store call of a request handler of an identified, open
\* connection fails, that connection is sent an error reply for the request,
\* and the process keeps serving.  The code breaks it: the rejection is
\* handled nowhere, so nothing is sent (and the runtime may end the process).
C13_StoreFailureSurfaced ==
    [][/\ (/\ last'.op \in {"fail", "crash"}
           /\ last'.from \in HandlerPcs
           /\ last'.conn \in DOMAIN users
           /\ ready[last'.conn] = "open")
          => \E m \in sent' : m.to = last'.conn /\ m.event = "error"
       /\ last'.op # "crash"
      ]_vars

\* The state SpecSnap starts in, but for the history variables.
SnapStartReached ==
    /\ currentRound = 0
    /\ users = MapSet(EmptyMap, ConnSeq[1], "X")
    /\ isAdmin = [c \in Conns |-> FALSE]
    /\ ready = [c \in Conns |-> IF c = ConnSeq[1] THEN "open" ELSE "new"]
    /\ votes = MapSet(EmptyMap, <<0, "X">>, contestants[1])
    /\ counts = MapSet(EmptyMap, <<0, contestants[1]>>, 1)
    /\ verifying = <<>>
    /\ pending = <<>>
    /\ ~wasReset

\* The tallies of round 0 in the states of SpecSnap in which every counter
\* equals the number of records naming its contestant: X always holds one
\* record, Y holds at most one, each names a contestant of the catalog.
ConsistentTallies ==
    {vc \in [1..Len(contestants) -> 0..2] : vc[1] + vc[2] \in 1..2}

\* C14: the voteCounts of every vote_update is the tally of one round in one
\* state in which the counters matched the records.  The code breaks it: the
\* counting loop reads the counters one await apart and a vote switch that
\* runs alongside has decremented the old contestant and not yet incremented
\* the new one.
C14_SnapshotConsistent ==
    \A m \in sent : m.event = "vote_update" => m.voteCounts \in ConsistentTallies

\* C15: once a vote handler has sent vote_success, a tally broadcast is under
\* way (a detached counting loop whose result goes to every client).  The
\* code breaks it: the re-vote for the same contestant sends vote_success and
\* returns before the call of broadcastVoteCounts, so nothing is left running
\* that would send a vote_update.
C15_VoteSuccessBroadcasts ==
    [][(\E m \in sent' : m.event = "vote_success")
        => \E i \in 1..Len(pending') : pending'[i].pc = "bc_get" /\ pending'[i].dest = "all"
      ]_vars

\* C16: the counting loop a vote starts reports the round the vote was cast
\* in and includes the vote: whenever that loop reads a counter while the
\* voted contestant's counter of the vote's round holds the vote, the value it
\* reads is that of the counter of the vote's round.  The code breaks it: the
\* loop builds its keys from currentRound, so after a next_round it reads the
\* counters of the new round.
C16_BroadcastReportsVoteRound ==
    [][(/\ pending # <<>>
        /\ Head(pending).cid # None
        /\ \/ Resumed("v_incr")
           \/ Resumed("bc_get") /\ Head(pending).idx < Len(contestants)
        /\ CountIn(counts, Head(pending).vround, RedisStr(Head(pending).cid)) >= 1)
       => LET t == pending'[Len(pending')]
          IN ParseCount(t.count) = CountIn(counts, Head(pending).vround, contestants[t.idx])
      ]_vars

\* C17: no two request handlers of the same connection are in flight
\* together (an identify that waits for its verification and every handler
\* that waits for a store reply count as in flight; a detached broadcast does
\* not).  The code breaks it: ws.on('message') starts a handler per message
\* and never waits for the previous one.
HandlersInFlight == SelectSeq(verifying \o pending, LAMBDA t : t.pc \in HandlerPcs)
C17_PerConnectionSerialized ==
    \A i, j \in 1..Len(HandlersInFlight) :
        i # j => HandlersInFlight[i].ws # HandlersInFlight[j].ws

\* C18: every message put on the wire goes to a connection of the session
\* registry; in particular a vote_update or round_update broadcast reaches
\* registered connections only.  The code breaks it: broadcast() walks
\* wss.clients, which holds every open socket, identified or not.
C18_RecipientsRegistered ==
    \A m \in sent : m.to \in DOMAIN users

\* C19: with one handler at a time, no step of a reset_votes handler changes
\* a vote record, and when the handler has deleted its last key every counter
\* of rounds 0..current reads 0; get_my_vote answers with the voter's record
\* of the current round as the store holds it and get_vote_counts with the
\* counters of the current round.  So after a reset a voter still gets the
\* contestant voted for while the counts read 0.
C19_ResetKeepsRecords ==
    [][/\ (Received({"reset_votes"}) \/ Resumed("rs_del")) => votes' = votes
       /\ (Resumed("rs_del") /\ pending'[Len(pending')].pc = "bc_get") =>
            \A r \in 0..currentRound, c \in CatalogIds : CountIn(counts', r, c) = 0
       /\ Resumed("mv_get") =>
            LET t == Head(pending)
            IN sent' = IF ready[t.ws] = "open"
                       THEN {[Msg(t.ws, "my_vote") EXCEPT
                                 !.contestantId = MapGet(votes, <<currentRound, t.uuid>>)]}
                       ELSE {}
       /\ (Resumed("gc_get") /\ Head(pending).idx = Len(contestants)) =>
            LET t == Head(pending)
                vc == [i \in 1..Len(contestants) |-> CountIn(counts, currentRound, contestants[i])]
            IN sent' = IF ready[t.ws] = "open"
                       THEN {[Msg(t.ws, "vote_update") EXCEPT !.voteCounts = vc]}
                       ELSE {}
      ]_vars

\* After a reset a voter has just been told the contestant voted for in the
\* current round, while every counter of that round reads 0.
C19_Witness ==
    /\ wasReset
    /\ last.op = "resume"
    /\ last.from = "mv_get"
    /\ \E m \in sent : m.event = "my_vote" /\ m.contestantId \in CatalogIds
    /\ \A c \in CatalogIds : CountIn(counts, currentRound, c) = 0

\* C20: every record and every counter a step of a vote handler changes is a
\* key of the round that was current when the handler started.  The code
\* breaks it: the counter keys are built from currentRound after the awaits,
\* so a next_round handled meanwhile sends the decr and the incr to the
\* counters of the new round.
C20_VoteKeepsItsRound ==
    [][(\E pc \in {"v_get", "v_decr", "v_set", "v_incr"} : Resumed(pc)) =>
            /\ \A k \in DOMAIN votes \cup DOMAIN votes' :
                   MapGet(votes', k) # MapGet(votes, k) => k[1] = Head(pending).vround
            /\ \A k \in DOMAIN counts \cup DOMAIN counts' :
                   CountIn(counts', k[1], k[2]) # CountIn(counts, k[1], k[2])
                       => k[1] = Head(pending).vround
      ]_vars

====
